---- MODULE Spec2Model ----
(***************************************************************************)
(* Booking-request API of routine relief: the three server files of the   *)
(* repository (server/server.js, the Postgres server kept in server/db.js *)
(* and the SQLite server), their validator, admin guard and the           *)
(* booking_requests table.                                                 *)
(*                                                                         *)
(* JavaScript strings are sequences of one-character strings, so that     *)
(* trim(), replace(/\D/g, "") and the date pattern are computed.  A JSON  *)
(* value is a record [t, s, n, a]: its type tag, its characters (string), *)
(* its number, its elements (array).                                       *)
(***************************************************************************)
EXTENDS Integers, Sequences, FiniteSets

VARIABLES impl, adminKey, rows, req, res

vars == <<impl, adminKey, rows, req, res>>

(* ------------------------------ bounds --------------------------------- *)

\* rows the table may hold before submissions stop being generated
MaxRows == 2

\* the queries' LIMIT 500, scaled so that a table of MaxRows rows exceeds it
ListLimit == 1

(* ---------------------------- JSON values ------------------------------ *)

Undefined == [t |-> "undefined", s |-> <<>>, n |-> 0, a |-> <<>>]

Null == [t |-> "null", s |-> <<>>, n |-> 0, a |-> <<>>]

Str(cs) == [t |-> "string", s |-> cs, n |-> 0, a |-> <<>>]

Num(k) == [t |-> "number", s |-> <<>>, n |-> k, a |-> <<>>]

Arr(vs) == [t |-> "array", s |-> <<>>, n |-> 0, a |-> vs]

DigitChars == <<"0", "1", "2", "3", "4", "5", "6", "7", "8", "9">>

Digit == {DigitChars[i] : i \in 1..10}

WhiteSpace == {" "}

\* v || d
Truthy(v) ==
  CASE v.t = "undefined" -> FALSE
    [] v.t = "null" -> FALSE
    [] v.t = "string" -> v.s # <<>>
    [] v.t = "number" -> v.n # 0
    [] OTHER -> TRUE

Or(v, d) == IF Truthy(v) THEN v ELSE d

RECURSIVE NumberToString(_)
NumberToString(k) ==
  IF k < 10 THEN <<DigitChars[k + 1]>>
  ELSE NumberToString(k \div 10) \o <<DigitChars[(k % 10) + 1]>>

\* String(v); an array is its elements joined by ",", null and undefined
\* elements giving the empty string
RECURSIVE String(_)
RECURSIVE Join(_)
Join(vs) ==
  IF vs = <<>> THEN <<>>
  ELSE LET h == Head(vs)
           hs == IF h.t \in {"undefined", "null"} THEN <<>> ELSE String(h)
       IN IF Len(vs) = 1 THEN hs ELSE hs \o <<",">> \o Join(Tail(vs))

String(v) ==
  CASE v.t = "string" -> v.s
    [] v.t = "number" -> NumberToString(v.n)
    [] v.t = "undefined" -> <<"u", "n", "d", "e", "f", "i", "n", "e", "d">>
    [] v.t = "null" -> <<"n", "u", "l", "l">>
    [] OTHER -> Join(v.a)

\* String.prototype.trim
RECURSIVE TrimStart(_)
TrimStart(cs) ==
  IF cs # <<>> /\ Head(cs) \in WhiteSpace THEN TrimStart(Tail(cs)) ELSE cs

RECURSIVE TrimEnd(_)
TrimEnd(cs) ==
  IF cs # <<>> /\ cs[Len(cs)] \in WhiteSpace
  THEN TrimEnd(SubSeq(cs, 1, Len(cs) - 1))
  ELSE cs

Trim(cs) == TrimEnd(TrimStart(cs))

\* only a string has a trim method: (v || "").trim() throws a TypeError for a
\* truthy value of any other type
TrimThrows(v) == Truthy(v) /\ v.t # "string"

TrimOr(v) == Trim(Or(v, Str(<<>>)).s)

RECURSIVE StripNonDigits(_)
StripNonDigits(cs) ==
  IF cs = <<>> THEN <<>>
  ELSE IF Head(cs) \in Digit THEN <<Head(cs)>> \o StripNonDigits(Tail(cs))
       ELSE StripNonDigits(Tail(cs))

normalizePhone(phone) == StripNonDigits(String(Or(phone, Str(<<>>))))

\* /^\d{4}-\d{2}-\d{2}$/ on a sequence of characters
MatchesDatePattern(cs) ==
  /\ Len(cs) = 10
  /\ \A i \in {1, 2, 3, 4, 6, 7, 9, 10} : cs[i] \in Digit
  /\ cs[5] = "-"
  /\ cs[8] = "-"

\* RegExp.prototype.test converts its argument to a string first
isValidISODate(iso) == MatchesDatePattern(String(iso))

Morning == <<"m", "o", "r", "n", "i", "n", "g">>

Afternoon == <<"a", "f", "t", "e", "r", "n", "o", "o", "n">>

Evening == <<"e", "v", "e", "n", "i", "n", "g">>

\* Set.prototype.has compares without conversion
allowedWindows == {Str(Morning), Str(Afternoon), Str(Evening)}

(* ------------------------------ validator ------------------------------ *)

Plain(msg) == [msg |-> msg, arg |-> <<>>]

Naming(msg, v) == [msg |-> msg, arg |-> String(v)]

IsAllowedWindow(w) == w \in allowedWindows

\* for (const d of dates) if (!isValidISODate(d)) errors.push(`Invalid date: ${d}`)
RECURSIVE DateErrors(_)
DateErrors(vs) ==
  IF vs = <<>> THEN <<>>
  ELSE (IF isValidISODate(Head(vs)) THEN <<>>
        ELSE <<Naming("Invalid date: ", Head(vs))>>)
       \o DateErrors(Tail(vs))

\* for (const w of windows) if (!allowedWindows.has(w)) errors.push(`Invalid window: ${w}`)
RECURSIVE WindowErrors(_)
WindowErrors(vs) ==
  IF vs = <<>> THEN <<>>
  ELSE (IF IsAllowedWindow(Head(vs)) THEN <<>>
        ELSE <<Naming("Invalid window: ", Head(vs))>>)
       \o WindowErrors(Tail(vs))

IfErr(cond, msg) == IF cond THEN <<Plain(msg)>> ELSE <<>>

DayMessage(server) ==
  IF server = "part_000" THEN "Select at least 1 day."
  ELSE "Select at least 1 preferred day."

StateDefault(server) ==
  IF server = "part_000" THEN <<>> ELSE <<"U", "T">>

ValidateThrows(body) ==
  \/ TrimThrows(body.name)
  \/ TrimThrows(body.email)
  \/ TrimThrows(body.line1)
  \/ TrimThrows(body.line2)
  \/ TrimThrows(body.city)
  \/ TrimThrows(body.state)
  \/ TrimThrows(body.zip)
  \/ TrimThrows(body.notes)

NullIfEmpty(cs) == IF cs = <<>> THEN Null ELSE Str(cs)

StateOf(server, body) ==
  IF TrimOr(body.state) = <<>> THEN StateDefault(server) ELSE TrimOr(body.state)

Cleaned(server, body) ==
  [dates |-> IF server = "server.js" THEN Or(body.dates, Arr(<<>>)) ELSE body.dates,
   windows |-> IF server = "server.js" THEN Or(body.windows, Arr(<<>>)) ELSE body.windows,
   name |-> TrimOr(body.name),
   phone |-> normalizePhone(Or(body.phone, Str(<<>>))),
   email |-> NullIfEmpty(TrimOr(body.email)),
   line1 |-> TrimOr(body.line1),
   line2 |-> NullIfEmpty(TrimOr(body.line2)),
   city |-> TrimOr(body.city),
   state |-> StateOf(server, body),
   zip |-> TrimOr(body.zip),
   notes |-> NullIfEmpty(TrimOr(body.notes))]

Errors(server, body) ==
  LET c == Cleaned(server, body)
  IN IfErr(body.dates.t # "array" \/ Len(body.dates.a) < 1, DayMessage(server))
     \o IfErr(body.windows.t # "array" \/ Len(body.windows.a) < 1,
              "Select at least 1 time window.")
     \o (IF body.dates.t = "array"
         THEN DateErrors(body.dates.a)
         ELSE <<>>)
     \o (IF body.windows.t = "array"
         THEN WindowErrors(body.windows.a)
         ELSE <<>>)
     \o IfErr(c.name = <<>>, "Name is required.")
     \o IfErr(c.phone = <<>>, "Phone is required.")
     \o IfErr(c.line1 = <<>>, "Street address is required.")
     \o IfErr(c.city = <<>>, "City is required.")
     \o IfErr(server = "part_000" /\ c.state = <<>>, "State is required.")
     \o IfErr(c.zip = <<>>, "ZIP is required.")

Fields ==
  {"dates", "windows", "name", "phone", "email", "line1", "line2", "city",
   "state", "zip", "notes"}

\* the body {} (also a request without a JSON body)
EmptyBody == [f \in Fields |-> Undefined]

NoCleaned == Cleaned("server.js", EmptyBody)

\* validateBooking (server.js) and validate (db.js, the SQLite server)
validateBooking(server, body) ==
  IF ValidateThrows(body)
  THEN [threw |-> TRUE, errors |-> <<>>, cleaned |-> NoCleaned]
  ELSE [threw |-> FALSE, errors |-> Errors(server, body),
        cleaned |-> Cleaned(server, body)]

(* ------------------------- the booking_requests table ------------------ *)

Requested == <<"r", "e", "q", "u", "e", "s", "t", "e", "d">>

Scheduled == <<"s", "c", "h", "e", "d", "u", "l", "e", "d">>

Cancelled == <<"c", "a", "n", "c", "e", "l", "l", "e", "d">>

\* INSERT INTO booking_requests (...) VALUES (...): id is the next key,
\* created_at and status take their column defaults.  preferred_dates and
\* preferred_windows hold the JSON value that JSON.stringify writes and the
\* jsonb column (JSON.parse in the SQLite server) gives back.
Insert(table, c, clock) ==
  Append(table,
         [id |-> Len(table) + 1,
          created_at |-> clock,
          preferred_dates |-> c.dates,
          preferred_windows |-> c.windows,
          name |-> c.name,
          phone |-> c.phone,
          email |-> c.email,
          line1 |-> c.line1,
          line2 |-> c.line2,
          city |-> c.city,
          state |-> c.state,
          zip |-> c.zip,
          notes |-> c.notes,
          status |-> Requested])

Matching(table, status) == {i \in 1..Len(table) : table[i].status = status}

Min(x, y) == IF x < y THEN x ELSE y

\* ORDER BY created_at DESC: every order of the matching rows the store may
\* return (rows of equal created_at come in any order)
Orderings(table, status) ==
  LET m == Matching(table, status)
      k == Cardinality(m)
  IN {f \in [1..k -> m] :
        /\ \A i, j \in 1..k : i # j => f[i] # f[j]
        /\ \A i, j \in 1..k :
             i < j => table[f[i]].created_at >= table[f[j]].created_at}

\* SELECT * FROM booking_requests WHERE status = $1 ORDER BY created_at DESC LIMIT n
SelectByStatus(table, status, limit) ==
  {[i \in 1..Min(limit, Cardinality(Matching(table, status))) |-> table[f[i]]] :
     f \in Orderings(table, status)}

\* mutant: the UPDATE without its WHERE clause
UpdateStatusEveryRow(table, status, id) ==
  [i \in 1..Len(table) |-> [table[i] EXCEPT !.status = status]]

\* mutant: the UPDATE restricted to records still in status requested
UpdateStatusFromRequested(table, status, id) ==
  [i \in 1..Len(table) |->
     IF table[i].id = id /\ table[i].status = Requested
     THEN [table[i] EXCEPT !.status = status]
     ELSE table[i]]

\* UPDATE booking_requests SET status = $1 WHERE id = $2
UpdateStatus(table, status, id) ==
  [i \in 1..Len(table) |->
     IF table[i].id = id THEN [table[i] EXCEPT !.status = status] ELSE table[i]]

\* the UPDATE's rowCount
RowCount(table, id) == Cardinality({i \in 1..Len(table) : table[i].id = id})

\* the store reads the $2 parameter as the integer key: digits only
IsIntegerText(cs) == cs # <<>> /\ \A i \in 1..Len(cs) : cs[i] \in Digit

RECURSIVE IntegerOf(_)
IntegerOf(cs) ==
  IF cs = <<>> THEN 0
  ELSE 10 * IntegerOf(SubSeq(cs, 1, Len(cs) - 1))
       + (CHOOSE d \in 0..9 : DigitChars[d + 1] = cs[Len(cs)])

(* ------------------------------ requests ------------------------------- *)

Servers == {"server.js", "db.js", "part_000"}

NoResponse == 0

\* a TypeError thrown in a route handler: the synchronous handlers of the
\* SQLite server hand it to the framework, which answers 500; a rejected async
\* handler is answered 500 or left without a response, by framework version
ThrowCodes(server) == IF server = "part_000" THEN {500} ELSE {500, NoResponse}

NoReq ==
  [op |-> "none", body |-> EmptyBody, key |-> Undefined, status |-> Undefined,
   id |-> <<>>]

NoRes ==
  [code |-> NoResponse, threw |-> FALSE, errors |-> <<>>, request_id |-> 0,
   requests |-> <<>>, stmt |-> FALSE, dbUp |-> TRUE]

\* requireAdmin lets the request through
Authorized(key) == Truthy(adminKey) /\ key = adminKey

\* the route is registered with requireAdmin
Guarded(server) == server # "part_000"

requireAdmin(server, key) == Guarded(server) => Authorized(key)

(* ------------------------------- inputs -------------------------------- *)

GoodDate == <<"2", "0", "2", "5", "-", "0", "3", "-", "0", "1">>

BadDate == <<"2", "0", "2", "5", "-", "3", "-", "1">>

\* a submission every server accepts
BaseBody ==
  [dates |-> Arr(<<Str(GoodDate)>>),
   windows |-> Arr(<<Str(Morning)>>),
   name |-> Str(<<" ", "J", "o", " ">>),
   phone |-> Str(<<"(", "5", ")", " ", "1">>),
   email |-> Undefined,
   line1 |-> Str(<<"1", " ", "M">>),
   line2 |-> Undefined,
   city |-> Str(<<"P">>),
   state |-> Str(<<" ", "N", "V", " ">>),
   zip |-> Str(<<"8">>),
   notes |-> Undefined]

Bodies ==
  {BaseBody,
   EmptyBody,
   [BaseBody EXCEPT !.state = Undefined],
   [BaseBody EXCEPT !.state = Str(<<" ">>)],
   [BaseBody EXCEPT !.dates = Arr(<<Arr(<<Str(GoodDate)>>)>>)],
   [BaseBody EXCEPT !.name = Num(5)],
   [BaseBody EXCEPT !.phone = Num(5), !.name = Num(0), !.city = Str(<<>>)],
   [BaseBody EXCEPT !.dates = Str(GoodDate), !.windows = Arr(<<>>),
                    !.name = Str(<<" ">>)],
   [BaseBody EXCEPT !.dates = Arr(<<Str(GoodDate), Str(BadDate), Num(7)>>),
                    !.windows = Arr(<<Str(<<"n", "o", "o", "n">>), Str(Evening)>>),
                    !.phone = Str(<<"n", "/", "a">>), !.zip = Null]}

\* process.env.ADMIN_KEY: unset, set to the empty string, set
ConfigKeys == {Undefined, Str(<<>>), Str(<<"k">>)}

\* the x-admin-key header: missing, empty, the configured key, another key
HeaderKeys == {Undefined, Str(<<>>), Str(<<"k">>), Str(<<"x">>)}

\* ?status= of the list request: missing, a string, a repeated parameter
QueryStatuses ==
  {Undefined, Str(Requested), Str(<<" ">> \o Scheduled \o <<" ">>),
   Str(Cancelled), Str(<<"d", "o", "n", "e">>),
   Arr(<<Str(Requested), Str(Scheduled)>>)}

\* the list requests: every filter with the key "k", two with the other keys
ListRequests ==
  {[NoReq EXCEPT !.op = "list", !.key = Str(<<"k">>), !.status = q] :
     q \in QueryStatuses}
  \cup {[NoReq EXCEPT !.op = "list", !.key = k, !.status = q] :
          k \in HeaderKeys, q \in {Undefined, Str(Cancelled)}}

\* body.status of the update request
BodyStatuses ==
  {Undefined, Str(Requested), Str(Scheduled), Str(<<" ">> \o Cancelled),
   Str(<<"d", "o", "n", "e">>), Arr(<<Str(Scheduled)>>)}

\* :id of the update request
PathIds == {<<"2">>, <<"7">>, <<"x">>}

\* the update requests: every id and status with the key "k", two with the
\* other keys
UpdateRequests ==
  {[NoReq EXCEPT !.op = "patch", !.key = Str(<<"k">>), !.status = st, !.id = id] :
     st \in BodyStatuses, id \in PathIds}
  \cup {[NoReq EXCEPT !.op = "patch", !.key = k, !.status = st, !.id = <<"2">>] :
          k \in HeaderKeys, st \in {Str(Scheduled), Str(<<"d", "o", "n", "e">>)}}

(* ------------------------------- routes -------------------------------- *)

Init ==
  /\ impl \in Servers
  /\ adminKey \in ConfigKeys
  /\ rows = <<>>
  /\ req = NoReq
  /\ res = NoRes

\* the readings of the store clock an insert may take as created_at: the
\* reading of the last insert (no time has passed) or a later one
ClockReadings(table) ==
  IF table = <<>> THEN {0}
  ELSE {table[Len(table)].created_at, table[Len(table)].created_at + 1}

\* POST /api/booking-request
BookingRequest ==
  /\ Len(rows) < MaxRows
  /\ \E body \in Bodies :
       LET v == validateBooking(impl, body)
       IN /\ req' = [NoReq EXCEPT !.op = "post", !.body = body]
          /\ IF v.threw
             THEN /\ \E code \in ThrowCodes(impl) :
                       res' = [NoRes EXCEPT !.code = code, !.threw = TRUE]
                  /\ rows' = rows
             ELSE IF v.errors # <<>>
             THEN /\ res' = [NoRes EXCEPT !.code = 400, !.errors = v.errors]
                  /\ rows' = rows
             ELSE \E dbUp \in BOOLEAN, clock \in ClockReadings(rows) :
                    IF dbUp
                    THEN /\ rows' = Insert(rows, v.cleaned, clock)
                         /\ res' = [NoRes EXCEPT !.code = 200, !.stmt = TRUE,
                                                 !.request_id = Len(rows) + 1]
                    ELSE /\ rows' = rows
                         /\ res' = [NoRes EXCEPT !.code = 500, !.stmt = TRUE,
                                                 !.dbUp = FALSE]
  /\ UNCHANGED <<impl, adminKey>>

\* String(req.query.status || "requested").trim() in server.js,
\* (req.query.status || "requested").trim() in the other two
ListStatusThrows(server, q) == server # "server.js" /\ TrimThrows(q)

ListStatus(q) == Trim(String(Or(q, Str(Requested))))

\* GET /api/admin/requests
AdminList ==
  /\ \E r \in ListRequests :
       /\ req' = r
       /\ IF ~requireAdmin(impl, r.key)
          THEN res' = [NoRes EXCEPT !.code = 401]
          ELSE IF ListStatusThrows(impl, r.status)
          THEN \E code \in ThrowCodes(impl) :
                 res' = [NoRes EXCEPT !.code = code, !.threw = TRUE]
          ELSE \E dbUp \in BOOLEAN :
                 IF dbUp
                 THEN \E out \in SelectByStatus(rows, ListStatus(r.status), ListLimit) :
                        res' = [NoRes EXCEPT !.code = 200, !.stmt = TRUE,
                                             !.requests = out]
                 ELSE res' = [NoRes EXCEPT !.code = 500, !.stmt = TRUE,
                                           !.dbUp = FALSE]
  /\ UNCHANGED <<impl, adminKey, rows>>

\* String(req.body?.status || "").trim()
PatchStatus(st) == Trim(String(Or(st, Str(<<>>))))

allowed == {Requested, Scheduled, Cancelled}

\* mutant: any non-empty status passes
IsAllowedStatusNonEmpty(status) == status # <<>>

IsAllowedStatus(status) == status \in allowed

\* PATCH /api/admin/requests/:id (server.js only)
AdminUpdate ==
  /\ impl = "server.js"
  /\ \E r \in UpdateRequests :
       /\ req' = r
       /\ IF ~requireAdmin(impl, r.key)
          THEN /\ res' = [NoRes EXCEPT !.code = 401]
               /\ rows' = rows
          ELSE IF ~IsAllowedStatus(PatchStatus(r.status))
          THEN /\ res' = [NoRes EXCEPT !.code = 400]
               /\ rows' = rows
          ELSE \E dbUp \in BOOLEAN :
                 IF ~dbUp \/ ~IsIntegerText(r.id)
                 THEN /\ res' = [NoRes EXCEPT !.code = 500, !.stmt = TRUE,
                                              !.dbUp = dbUp]
                      /\ rows' = rows
                 ELSE IF RowCount(rows, IntegerOf(r.id)) = 0
                 THEN /\ res' = [NoRes EXCEPT !.code = 404, !.stmt = TRUE]
                      /\ rows' = rows
                 ELSE /\ res' = [NoRes EXCEPT !.code = 200, !.stmt = TRUE]
                      /\ rows' = UpdateStatus(rows, PatchStatus(r.status),
                                              IntegerOf(r.id))
  /\ UNCHANGED <<impl, adminKey>>

Next == BookingRequest \/ AdminList \/ AdminUpdate

Spec == Init /\ [][Next]_vars

(* ------------------------------- claims -------------------------------- *)

IsPatch(r) == r.op = "patch"

IsList(r) == r.op = "list"

IsPost(r) == r.op = "post"

\* C1: every admin operation (list, update) of every server whose request
\* carries no key equal to a configured key is answered 401 and issues no
\* store statement.
C1_UnauthorizedRefused ==
  (req.op \in {"list", "patch"} /\ ~Authorized(req.key))
    => (res.code = 401 /\ ~res.stmt)

\* a stored record as the data model describes it
IsDigits(cs) == \A i \in 1..Len(cs) : cs[i] \in Digit

IsTrimmedNonEmpty(cs) == cs # <<>> /\ Trim(cs) = cs

RecordWellFormed(r) ==
  /\ r.preferred_dates.t = "array"
  /\ r.preferred_dates.a # <<>>
  /\ \A i \in 1..Len(r.preferred_dates.a) :
       /\ r.preferred_dates.a[i].t = "string"
       /\ MatchesDatePattern(r.preferred_dates.a[i].s)
  /\ r.preferred_windows.t = "array"
  /\ r.preferred_windows.a # <<>>
  /\ \A i \in 1..Len(r.preferred_windows.a) :
       /\ r.preferred_windows.a[i].t = "string"
       /\ r.preferred_windows.a[i].s \in {Morning, Afternoon, Evening}
  /\ IsTrimmedNonEmpty(r.name)
  /\ IsTrimmedNonEmpty(r.line1)
  /\ IsTrimmedNonEmpty(r.city)
  /\ IsTrimmedNonEmpty(r.zip)
  /\ r.phone # <<>>
  /\ IsDigits(r.phone)

\* C2: every stored record satisfies the data-model invariants, and a
\* submission with a non-empty error list is answered 400 and inserts nothing.
C2_StoredRecordsWellFormed ==
  /\ \A i \in 1..Len(rows) : RecordWellFormed(rows[i])
  /\ (IsPost(req) /\ res.errors # <<>>) => (res.code = 400 /\ ~res.stmt)

\* C3: every submission, whatever the types of its fields, is answered 200
\* with a request id, 400 with a non-empty error list, or 500, and the
\* validator returns its error list instead of failing.
C3_SubmissionAnswered ==
  IsPost(req) =>
    /\ ~res.threw
    /\ res.code \in {200, 400, 500}
    /\ res.code = 200 => res.request_id \in 1..Len(rows)
    /\ res.code = 400 => res.errors # <<>>

\* the status value is exactly one of the three names, once trimmed
ExactlyAllowed(v) == v.t = "string" /\ Trim(v.s) \in {Requested, Scheduled, Cancelled}

\* C4 as stated: an authorized update whose status value is not exactly one of
\* requested, scheduled, cancelled after trimming is answered 400 and issues
\* no store statement.
C4_NotExactlyAllowedRejected ==
  (IsPatch(req) /\ Authorized(req.key) /\ ~ExactlyAllowed(req.status))
    => (res.code = 400 /\ ~res.stmt)

\* the status value converted to a string and trimmed; absent gives ""
AsTrimmedString(v) ==
  IF v.t \in {"undefined", "null"} THEN <<>> ELSE Trim(String(v))

\* C4 amended: an authorized update whose status value, converted to a string
\* and trimmed, is not one of requested, scheduled, cancelled (an absent status
\* included) is answered 400, issues no store statement and leaves every
\* record unchanged.
C4_InvalidStatusRejected ==
  [][(IsPatch(req') /\ Authorized(req'.key)
        /\ AsTrimmedString(req'.status) \notin {Requested, Scheduled, Cancelled})
       => (res'.code = 400 /\ ~res'.stmt /\ rows' = rows)]_vars

\* an authorized update of an existing record to "done" was answered 400
C4_Witness ==
  /\ IsPatch(req)
  /\ Authorized(req.key)
  /\ req.status = Str(<<"d", "o", "n", "e">>)
  /\ req.id = <<"2">>
  /\ Len(rows) >= 2
  /\ res.code = 400

\* the id of the path names a stored record
NamesRecord(id) == \E i \in 1..Len(rows) : NumberToString(rows[i].id) = id

\* C5: an authorized update with an allowed status and an id that names no
\* stored record, integer or not, is answered 404 while the store is
\* reachable, and alters no record.
C5_UnknownIdNotFound ==
  (IsPatch(req) /\ Authorized(req.key) /\ ExactlyAllowed(req.status)
     /\ ~NamesRecord(req.id) /\ res.dbUp)
    => res.code = 404

SameButStatus(r1, r2) == [r1 EXCEPT !.status = r2.status] = r2

\* C6: no step removes a record or changes a field other than status, and a
\* step that changes a status is a successful update of the record with the
\* given id and changes no other record.
C6_OnlyStatusChanges ==
  [][/\ Len(rows') >= Len(rows)
     /\ \A i \in 1..Len(rows) :
          /\ SameButStatus(rows[i], rows'[i])
          /\ rows'[i].status # rows[i].status
               => /\ IsPatch(req')
                  /\ res'.code = 200
                  /\ NumberToString(rows[i].id) = req'.id]_vars

\* an update succeeded in a table of two records that now differ in status
C6_Witness ==
  /\ IsPatch(req)
  /\ res.code = 200
  /\ Len(rows) = 2
  /\ rows[1].status # rows[2].status

\* C7: a record's status is requested right after its insert and always one of
\* the three names; it changes only in a successful authorized update; and an
\* authorized update of an existing record to an allowed value t, with the
\* store reachable, succeeds and sets the status to t, whatever it was.
C7_StatusLifecycle ==
  [][/\ \A i \in 1..Len(rows') : rows'[i].status \in {Requested, Scheduled, Cancelled}
     /\ \A i \in (Len(rows) + 1)..Len(rows') : rows'[i].status = Requested
     /\ \A i \in 1..Len(rows) :
          rows'[i].status # rows[i].status
            => (IsPatch(req') /\ Authorized(req'.key) /\ res'.code = 200)
     /\ \A i \in 1..Len(rows) :
          (IsPatch(req') /\ Authorized(req'.key) /\ ExactlyAllowed(req'.status)
             /\ NumberToString(rows[i].id) = req'.id /\ res'.dbUp)
            => (res'.code = 200 /\ rows'[i].status = Trim(req'.status.s))]_vars

\* an update to cancelled, written with a leading blank, succeeded
C7_Witness ==
  /\ IsPatch(req)
  /\ res.code = 200
  /\ req.status = Str(<<" ">> \o Cancelled)
  /\ req.id = <<"2">>
  /\ Len(rows) >= 2
  /\ rows[2].status = Cancelled
  /\ rows[1].status = Requested

\* the filter of a list request: requested when none is given
FilterOf(q) == IF q.t \in {"undefined", "null"} THEN Requested ELSE Trim(String(q))

\* out is a listing of table for the filter: the matching records, the most
\* recently created first, cut to the limit
IsListing(out, table, filter, limit) ==
  LET m == Matching(table, filter)
  IN /\ Len(out) = Min(limit, Cardinality(m))
     /\ \A i \in 1..Len(out) : \E j \in m : out[i] = table[j]
     /\ \A i, j \in 1..Len(out) : i # j => out[i].id # out[j].id
     /\ \A i, j \in 1..Len(out) : i < j => out[i].created_at >= out[j].created_at
     /\ \A j \in m :
          (\A i \in 1..Len(out) : out[i].id # table[j].id)
            => \A i \in 1..Len(out) : out[i].created_at >= table[j].created_at

\* C8: a list request that passes the guard is answered 200, while the store is
\* reachable, with exactly the records whose status equals the filter, at most
\* the limit, the most recent first; the empty sequence when none matches.
C8_ListReturnsMatching ==
  (IsList(req) /\ requireAdmin(impl, req.key) /\ res.dbUp)
    => (res.code = 200 /\ IsListing(res.requests, rows, FilterOf(req.status), ListLimit))

HasNoState(body) ==
  \/ body.state.t \in {"undefined", "null"}
  \/ body.state.t = "string" /\ Trim(body.state.s) = <<>>

\* the submission is valid once a state is written into it
OtherwiseValid(server, body) ==
  LET v == validateBooking(server, [body EXCEPT !.state = Str(<<"N", "V">>)])
  IN ~v.threw /\ v.errors = <<>>

\* C9: a submission without a state that is otherwise valid passes validation
\* and is stored with state UT; a supplied state is stored trimmed.
C9_StateDefaultsToUT ==
  (IsPost(req) /\ OtherwiseValid(impl, req.body))
    => /\ res.errors = <<>>
       /\ res.code \in {200, 500}
       /\ res.code = 200
            => rows[res.request_id].state
                 = (IF HasNoState(req.body) THEN <<"U", "T">>
                    ELSE Trim(req.body.state.s))

IsDateString(v) == v.t = "string" /\ MatchesDatePattern(v.s)

IsWindowName(v) == v.t = "string" /\ v.s \in {Morning, Afternoon, Evening}

Occurrences(errs, e) == Cardinality({i \in 1..Len(errs) : errs[i] = e})

WithMessage(errs, msg) == Cardinality({i \in 1..Len(errs) : errs[i].msg = msg})

B2N(b) == IF b THEN 1 ELSE 0

NotASequence(v) == v.t # "array" \/ v.a = <<>>

\* the text a field normalizes to: trimmed, a missing or falsy value giving ""
\* (the phone is then reduced to its digits)
NormalText(v) == IF Truthy(v) THEN Trim(String(v)) ELSE <<>>

\* C10: the validator of server.js returns, for any submission, one
\* day-selection error iff dates is missing, not a sequence or empty, one
\* time-window error likewise, one error naming each element that is no
\* YYYY-MM-DD string or no window name, one error for each of name, phone,
\* line1, city, zip that is empty after normalization, and nothing else.
C10_AllViolationsCollected ==
  (IsPost(req) /\ impl = "server.js") =>
    LET b == req.body
        errs == res.errors
    IN /\ ~res.threw
       /\ Occurrences(errs, Plain("Select at least 1 preferred day.")) = B2N(NotASequence(b.dates))
       /\ Occurrences(errs, Plain("Select at least 1 time window.")) = B2N(NotASequence(b.windows))
       /\ WithMessage(errs, "Invalid date: ") = Cardinality({i \in 1..Len(b.dates.a) : ~IsDateString(b.dates.a[i])})
       /\ \A i \in 1..Len(b.dates.a) :
            ~IsDateString(b.dates.a[i])
              => Occurrences(errs, Naming("Invalid date: ", b.dates.a[i])) >= 1
       /\ WithMessage(errs, "Invalid window: ") = Cardinality({i \in 1..Len(b.windows.a) : ~IsWindowName(b.windows.a[i])})
       /\ \A i \in 1..Len(b.windows.a) :
            ~IsWindowName(b.windows.a[i])
              => Occurrences(errs, Naming("Invalid window: ", b.windows.a[i])) >= 1
       /\ Occurrences(errs, Plain("Name is required.")) = B2N(NormalText(b.name) = <<>>)
       /\ Occurrences(errs, Plain("Phone is required.")) = B2N(StripNonDigits(NormalText(b.phone)) = <<>>)
       /\ Occurrences(errs, Plain("Street address is required.")) = B2N(NormalText(b.line1) = <<>>)
       /\ Occurrences(errs, Plain("City is required.")) = B2N(NormalText(b.city) = <<>>)
       /\ Occurrences(errs, Plain("ZIP is required.")) = B2N(NormalText(b.zip) = <<>>)
       /\ Len(errs) = WithMessage(errs, "Invalid date: ") + WithMessage(errs, "Invalid window: ")
                      + B2N(NotASequence(b.dates)) + B2N(NotASequence(b.windows))
                      + B2N(NormalText(b.name) = <<>>)
                      + B2N(StripNonDigits(NormalText(b.phone)) = <<>>)
                      + B2N(NormalText(b.line1) = <<>>) + B2N(NormalText(b.city) = <<>>)
                      + B2N(NormalText(b.zip) = <<>>)

====
